---- MODULE Spec2Model ----
(***************************************************************************)
(* Model of the QUIC-transport runtime of owt-sdk-quic:                    *)
(*   - QuicTransportOWTServerImpl (quic_transport_owt_server_impl.cc):     *)
(*     Start/Stop called from a caller thread, StartOnCurrentThread,       *)
(*     StartReading and OnReadComplete running on the I/O thread;          *)
(*   - QuicTransportFactoryImpl::CreateQuicTransportClient                 *)
(*     (quic_transport_factory_impl.cc): the blocking cross-thread client  *)
(*     construction (specification SpecClient);                            *)
(*   - FakeProofSource and FakeProofVerifier                               *)
(*     (quic_transport_factory_impl.cc), specification SpecProof.          *)
(* SpecSilent runs the receive loop of the endpoint from a state with      *)
(* buffered handshakes while no datagram arrives.                          *)
(* The I/O thread is a single-threaded message loop: it runs one task (or  *)
(* one socket completion callback) at a time.  Inside a task, each call of *)
(* StartReading / OnReadComplete is one step, so that calls made by other  *)
(* threads (Stop) interleave with the nested calls as they can in the      *)
(* program.                                                                *)
(***************************************************************************)
EXTENDS Integers, Sequences, FiniteSets, TLC

\* ---------------------------------------------------------------- bounds
\* Number of Start() / Stop() calls the caller thread makes.
MaxStarts == 2
MaxStops == 2
\* A socket completion is only delivered while fewer than MaxQueue tasks wait.
MaxQueue == 2
\* Handshakes (CHLOs) the dispatcher can hold buffered.
MaxChlos == 1
\* Datagrams carry a sequence number modulo SeqMod.
SeqMod == 4
\* Number of distinct peers sending datagrams.
NumPeers == 2
\* Byte count of a received datagram (any positive value).
DatagramBytes == 1
\* Threads calling CreateQuicTransportClient, and calls they make in all.
NumCallers == 2
MaxCalls == 3
\* Calls made to the fallback proof source and proof verifier, in all.
MaxProofCalls == 3
\* Handshakes held buffered when the network falls silent.
MaxBuffered == 40

\* ------------------------------------------------------ program constants
kNumSessionsToCreatePerSocketEvent == 16
kMaxSynchronousReads == 32
ERR_IO_PENDING == -1
ERR_FAILED == -2
ERR_CONNECTION_CLOSED == -100

VARIABLES
    \* --- QuicTransportOWTServerImpl fields
    socket_,                  \* "null" | "open"   (std::unique_ptr<UDPServerSocket>)
    dispatcher_,              \* record, alive = FALSE models the null unique_ptr
    read_pending_,            \* bool
    synchronous_read_count_,  \* int
    read_buffer_,             \* sequence number of the datagram held, -1 = none
    client_address_,          \* peer of the datagram held, 0 = none
    \* --- the socket and the network
    sockPending,              \* a RecvFrom is outstanding on the socket
    net_next,                 \* sequence number of the next datagram delivered
    \* --- the I/O thread
    queue,                    \* posted tasks, in order
    pc,                       \* the call the I/O thread is about to execute
    depth,                    \* in-line OnReadComplete calls of the task (0 once it returned,
                              \* kept when it ended by posting the completion)
    origin,                   \* what started the current I/O-thread activity:
                              \* "task" (a posted task) | "socket" (a completion)
    crashed,                  \* the process died on a null dereference
    \* --- caller thread
    starts, stops,            \* Start() / Stop() calls made so far
    \* --- observation
    initCount,                \* runs of StartOnCurrentThread
    expect,                   \* sequence number the dispatcher is due next
    last,                     \* what the last step did
    \* --- CreateQuicTransportClient, per calling thread
    cstate,                   \* "idle" | "waiting" (in done.Wait()) | "returned"
    creq,                     \* the arguments host, port of the call
    result,                   \* the local "result" the closure writes through
    done,                     \* the local WaitableEvent: TRUE = signaled
    returned,                 \* the value the thread's last call returned
    calls,                    \* calls made so far, by all threads
    \* --- the I/O thread serving the closures
    cqueue,                   \* posted closures, in order
    cio,                      \* the closure the I/O thread is inside of
    rv,                       \* per calling thread: what Resolve returned to its
                              \* closure, "none" while it was not called
    \* --- FakeProofSource / FakeProofVerifier
    requested,                \* callbacks handed to the proof source so far
    resolved,                 \* callback invocations made by the proof source so far
    verified,                 \* calls made to the proof verifier so far
    proofLast                 \* the last call: arguments, callback runs, return

srvVars == <<socket_, dispatcher_, read_pending_, synchronous_read_count_,
             read_buffer_, client_address_, sockPending, net_next, queue, pc,
             depth, origin, crashed, starts, stops, initCount, expect, last>>

cliVars == <<cstate, creq, result, done, returned, calls, cqueue, cio, rv>>

proofVars == <<requested, resolved, verified, proofLast>>

\* ------------------------------------------------------------- dispatcher
\* The dispatcher (QuicTransportOWTDispatcher) is an opaque protocol engine;
\* only the number of buffered CHLOs and its shutdown state are kept.
NullDispatcher == [alive |-> FALSE, writer |-> FALSE, shutdown |-> FALSE, chlos |-> 0]

NewDispatcher == [alive |-> TRUE, writer |-> FALSE, shutdown |-> FALSE, chlos |-> 0]

InitializeWithWriter(d) == [d EXCEPT !.writer = TRUE]

Min(a, b) == IF a < b THEN a ELSE b

ProcessBufferedChlos(d, max) == [d EXCEPT !.chlos = @ - Min(@, max)]

HasChlosBuffered(d) == d.chlos > 0

Shutdown(d) == [d EXCEPT !.shutdown = TRUE]

\* ProcessPacket either dispatches the datagram to a session or buffers a CHLO.
ProcessPacketOutcomes(d) ==
    {d} \cup (IF d.chlos < MaxChlos THEN {[d EXCEPT !.chlos = @ + 1]} ELSE {})

\* Name recorded for a call through dispatcher_: a call through the null
\* unique_ptr is recorded as such.
ViaDispatcher(d, op) == IF d.alive THEN op ELSE "NullDispatcher"

\* ------------------------------------------------------------------ tasks
Task(fn, res) == [fn |-> fn, result |-> res]

Idle == Task("idle", 0)

\* Record of a step: the thread, the function, its argument or result, the
\* calls it made in order, the start-up calls that failed, and the datagram
\* handed to the dispatcher (<<>> when none).
Step(who, fn, res, ops, fail, pkt) ==
    [who |-> who, fn |-> fn, result |-> res, ops |-> ops, fail |-> fail,
     pkt |-> pkt]

PeerOf(seq) == (seq % NumPeers) + 1

\* ------------------------------------------------------ client construction
Callers == 1 .. NumCallers

\* Host strings passed by callers.
Hosts == {"203.0.113.5", "::1", "256.0.0.1", "example.org", "nonexistent.invalid"}

Ports == {443, 4433}

\* quic::QuicIpAddress::FromString(host): succeeds on a literal IPv4 / IPv6
\* address and yields the address; fails on anything else.
FromString(host) ==
    CASE host = "203.0.113.5" -> [ok |-> TRUE, ip |-> <<203, 0, 113, 5>>]
      [] host = "::1"         -> [ok |-> TRUE, ip |-> <<0, 0, 0, 0, 0, 0, 0, 1>>]
      [] OTHER                -> [ok |-> FALSE, ip |-> <<>>]

\* net::SynchronousHostResolver::Resolve(host, &addresses): OK with a
\* non-empty address list, or an error; the resolver decides.
ResolveOutcomes(host) ==
    {[rv |-> "ERR_NAME_NOT_RESOLVED", addresses |-> <<>>],
     [rv |-> "OK", addresses |-> << <<192, 0, 2, 7>>, <<192, 0, 2, 8>> >>]}

NullClient == [null |-> TRUE, ip |-> <<>>, port |-> 0]

\* Mutant: a resolution error is not detected.
ResolutionFailed_Never(rvalue) == FALSE

\* Mutant: the client is built for the port of the fixed URL, not the caller's.
NewClient_UrlPort(ip, port) == [null |-> FALSE, ip |-> ip, port |-> 443]

\* new QuicTransportOWTClientImpl(QuicSocketAddress(ip_addr, port), ...)
NewClient(ip, port) == [null |-> FALSE, ip |-> ip, port |-> port]

NoRequest == [host |-> "", port |-> 0]

NoClosure == [stage |-> "idle", caller |-> 0]

\* "addresses[0].address()" of the resolved list; the list is non-empty
\* whenever Resolve returned OK.
FrontAddress(addresses) == IF addresses = <<>> THEN <<>> ELSE addresses[1]

\* Arguments given to the fallback proof source and verifier.
ProofHosts == {"example.org", "", "203.0.113.5"}
ServerConfigs == {"", "scfg"}
SignatureAlgorithms == {1027, 2052}
CertLists == {<<>>, <<"fake cert">>, <<"real cert", "issuer cert">>}
Signatures == {"fake signature", "other signature"}

\* Mutant: GetProof drops the callback without running it.
GetProofRuns_None(hostname, server_config) == <<>>

\* FakeProofSource::GetCertChain: a chain of one placeholder certificate.
GetCertChain(hostname) == <<"fake cert">>

\* FakeProofSource::GetProof: the invocations of callback->Run it makes
\* before it returns, each with its arguments (ok, chain, proof, details).
GetProofRuns(hostname, server_config) ==
    << [ok |-> TRUE, chain |-> GetCertChain(hostname),
        signature |-> "fake signature", leaf_cert_scts |-> "fake timestamp",
        details |-> "null"] >>

\* FakeProofSource::ComputeTlsSignature: the invocations of callback->Run
\* it makes before it returns (ok, signature, details).
ComputeTlsSignatureRuns(hostname, signature_algorithm) ==
    << [ok |-> TRUE, chain |-> <<>>, signature |-> "fake signature",
        leaf_cert_scts |-> "", details |-> "null"] >>

\* FakeProofVerifier::VerifyProof: returned status; the callback is not run.
VerifyProofStatus(hostname, certs, signature) == "QUIC_SUCCESS"

\* FakeProofVerifier::VerifyCertChain: returned status; the callback is not run.
VerifyCertChainStatus(hostname, certs) == "QUIC_SUCCESS"

ProofCall(op, hostname, arg, runs, status) ==
    [op |-> op, hostname |-> hostname, arg |-> arg, runs |-> runs,
     status |-> status]

Init ==
    /\ socket_ = "null"
    /\ dispatcher_ = NullDispatcher
    /\ read_pending_ = FALSE
    /\ synchronous_read_count_ = 0
    /\ read_buffer_ = -1
    /\ client_address_ = 0
    /\ sockPending = FALSE
    /\ net_next = 0
    /\ queue = <<>>
    /\ pc = Idle
    /\ depth = 0
    /\ origin = "none"
    /\ crashed = FALSE
    /\ starts = 0
    /\ stops = 0
    /\ initCount = 0
    /\ expect = 0
    /\ last = Step("none", "none", 0, <<>>, {}, <<>>)
    /\ cstate = [c \in Callers |-> "idle"]
    /\ creq = [c \in Callers |-> NoRequest]
    /\ result = [c \in Callers |-> NullClient]
    /\ done = [c \in Callers |-> FALSE]
    /\ returned = [c \in Callers |-> NullClient]
    /\ calls = 0
    /\ cqueue = <<>>
    /\ cio = NoClosure
    /\ rv = [c \in Callers |-> "none"]
    /\ requested = 0
    /\ resolved = 0
    /\ verified = 0
    /\ proofLast = ProofCall("none", "", <<>>, <<>>, "none")

\* ------------------------------------------------- conditions of the code
\* Mutant: buffered CHLOs are processed on every StartReading() call.
ShouldProcessBuffered_Always(count) == TRUE

\* StartReading: "if (synchronous_read_count_ == 0)"
ShouldProcessBuffered(count) == count = 0

\* Mutant: the in-flight check is missing.
ReadInFlight_Never(pending) == FALSE

\* StartReading: "if (read_pending_) return;"
ReadInFlight(pending) == pending

\* Mutant: the yield threshold is off by one.
YieldThresholdExceeded_OffByOne(count) == count > kMaxSynchronousReads + 1

\* StartReading: "if (++synchronous_read_count_ > 32)"
YieldThresholdExceeded(count) == count > kMaxSynchronousReads

\* Mutant: no continuation is posted for buffered handshakes.
ShouldPostContinuation_Never(d) == FALSE

\* StartReading: "if (dispatcher_->HasChlosBuffered())" posts a continuation
ShouldPostContinuation(d) == HasChlosBuffered(d)

\* Mutant: a zero-byte read is not turned into an error.
NormalizeResult_Identity(res) == res

\* OnReadComplete: "if (result == 0) result = ERR_CONNECTION_CLOSED;"
NormalizeResult(res) == IF res = 0 THEN ERR_CONNECTION_CLOSED ELSE res

\* OnReadComplete: "if (result < 0)"
IsReadError(res) == res < 0

\* CreateQuicTransportClient closure: "if (rv != net::OK)"
ResolutionFailed(rvalue) == rvalue # "OK"

\* Stop: "if (!socket_) return;"
SocketHeld(s) == s # "null"

\* Results RecvFrom can return on a socket; only DatagramBytes carries data.
RecvResults == {ERR_IO_PENDING, ERR_FAILED, 0, DatagramBytes}

\* Results a completion callback can be run with.
CompletionResults == {ERR_FAILED, 0, DatagramBytes}

\* Outcomes of RecvFrom through a null socket_ that do not end the process:
\* no datagram can be delivered.
NullSocketResults == {ERR_IO_PENDING, ERR_FAILED, 0}

\* The start-up calls whose failure is only logged.
SetupCalls == {"Listen", "SetReceiveBufferSize", "SetSendBufferSize", "GetLocalAddress"}

\* Whether StartOnCurrentThread() returns early when the calls in fail
\* failed: each "if (rc < 0)" only logs, so it never does.
StartupAborts_OnListenFailure(fail) == "Listen" \in fail

StartupAborts(fail) == FALSE

\* The calls of StartOnCurrentThread(), in order.
StartupOps ==
    <<"NewSocket", "AllowAddressReuse", "Listen", "SetReceiveBufferSize",
      "SetSendBufferSize", "GetLocalAddress", "SwapSocket", "NewDispatcher",
      "InitializeWithWriter", "CallStartReading">>

\* The dispatcher StartOnCurrentThread() leaves in dispatcher_ before it
\* calls StartReading().
StartupDispatcher_NoWriter == NewDispatcher

StartupDispatcher == InitializeWithWriter(NewDispatcher)

\* ----------------------------------------------------------- caller thread
\* Start(): posts StartOnCurrentThread to the I/O thread and returns true.
Start ==
    /\ ~crashed
    /\ UNCHANGED <<cliVars, proofVars>>
    /\ starts < MaxStarts
    /\ starts' = starts + 1
    /\ queue' = Append(queue, Task("StartOnCurrentThread", 0))
    /\ last' = Step("caller", "Start", 1, <<"PostStartOnCurrentThread">>, {}, <<>>)
    /\ UNCHANGED <<socket_, dispatcher_, read_pending_, synchronous_read_count_,
                   read_buffer_, client_address_, sockPending, net_next, pc,
                   depth, origin, crashed, stops, initCount, expect>>

\* The body of Stop(), run by thread who inside function fn: sets
\* dispatcher_, socket_, sockPending, crashed and last.  dispatcher_->Shutdown()
\* through a null dispatcher_ is undefined: the process dies, or the call
\* returns without effect.
StopBody(who, fn, res) ==
    LET ops1 == <<ViaDispatcher(dispatcher_, "Shutdown")>>
        ops2 == IF SocketHeld(socket_)
                    THEN ops1 \o <<IF socket_ = "null" THEN "NullSocket" ELSE "Close",
                                   "Release">>
                    ELSE ops1
        Rest(d) == /\ dispatcher_' = d
                   /\ socket_' = "null"
                   /\ sockPending' = FALSE
                   /\ crashed' = crashed
                   /\ last' = Step(who, fn, res, ops2, {}, <<>>)
    IN  IF dispatcher_.alive
            THEN Rest(Shutdown(dispatcher_))
            ELSE \/ /\ crashed' = TRUE
                    /\ last' = Step(who, fn, res, ops1, {}, <<>>)
                    /\ UNCHANGED <<dispatcher_, socket_, sockPending>>
                 \/ Rest(dispatcher_)

\* Stop(): runs on the thread that calls it.
Stop ==
    /\ ~crashed
    /\ UNCHANGED <<cliVars, proofVars>>
    /\ stops < MaxStops
    /\ stops' = stops + 1
    /\ StopBody("caller", "Stop", 0)
    /\ UNCHANGED <<read_pending_, synchronous_read_count_, read_buffer_,
                   client_address_, net_next, queue, pc, depth, origin, starts,
                   initCount, expect>>

\* -------------------------------------------------------------- I/O thread
\* The message loop takes the next posted task.
IORunTask ==
    /\ ~crashed
    /\ UNCHANGED <<cliVars, proofVars>>
    /\ pc = Idle
    /\ queue # <<>>
    /\ pc' = Head(queue)
    /\ queue' = Tail(queue)
    /\ depth' = 0
    /\ origin' = "task"
    /\ last' = Step("io", "RunTask", 0, <<>>, {}, <<>>)
    /\ UNCHANGED <<socket_, dispatcher_, read_pending_, synchronous_read_count_,
                   read_buffer_, client_address_, sockPending, net_next,
                   crashed, starts, stops, initCount, expect>>

\* StartOnCurrentThread(): creates and configures the socket (failures are
\* logged), swaps it into socket_ (the previous socket, if any, is destroyed
\* with its outstanding receive), builds the dispatcher, calls StartReading().
IOStartOnCurrentThread ==
    /\ ~crashed
    /\ UNCHANGED <<cliVars, proofVars>>
    /\ pc.fn = "StartOnCurrentThread"
    /\ \E fail \in SUBSET SetupCalls :
          IF StartupAborts(fail)
             THEN /\ last' = Step("io", "StartOnCurrentThread", 0,
                                  <<"NewSocket", "AllowAddressReuse", "Listen">>,
                                  fail, <<>>)
                  /\ pc' = Idle
                  /\ UNCHANGED <<socket_, sockPending, dispatcher_, initCount>>
             ELSE /\ last' = Step("io", "StartOnCurrentThread", 0, StartupOps,
                                  fail, <<>>)
                  /\ socket_' = "open"
                  /\ sockPending' = FALSE
                  /\ dispatcher_' = StartupDispatcher
                  /\ initCount' = initCount + 1
                  /\ pc' = Task("StartReading", 0)
    /\ UNCHANGED <<read_pending_, synchronous_read_count_, read_buffer_,
                   client_address_, net_next, queue, depth, origin, crashed,
                   starts, stops, expect>>

\* StartReading() from "read_pending_ = true" on: RecvFrom returned r after
\* the calls ops; d is the dispatcher after ProcessBufferedChlos; real tells
\* whether a socket took the receive.
AfterRecvFrom(d, ops, r, real) ==
    /\ read_pending_' = TRUE
    /\ dispatcher_' = d
    /\ IF r > 0
          THEN /\ read_buffer_' = net_next
               /\ client_address_' = PeerOf(net_next)
               /\ net_next' = (net_next + 1) % SeqMod
          ELSE UNCHANGED <<read_buffer_, client_address_, net_next>>
    /\ IF r = ERR_IO_PENDING
          THEN LET post == ShouldPostContinuation(d) IN
               /\ synchronous_read_count_' = 0
               /\ sockPending' = real
               /\ queue' = IF post THEN Append(queue, Task("StartReading", 0))
                                   ELSE queue
               /\ pc' = Idle
               /\ depth' = 0
               /\ last' = Step("io", "StartReading", r,
                               ops \o <<ViaDispatcher(d, "HasChlosBuffered")>>
                                   \o (IF post THEN <<"PostStartReading">> ELSE <<>>),
                               {}, <<>>)
          ELSE /\ sockPending' = sockPending
               /\ IF YieldThresholdExceeded(synchronous_read_count_ + 1)
                     THEN /\ synchronous_read_count_' = 0
                          /\ queue' = Append(queue, Task("OnReadComplete", r))
                          /\ pc' = Idle
                          /\ depth' = depth
                          /\ last' = Step("io", "StartReading", r,
                                          ops \o <<"PostOnReadComplete">>, {}, <<>>)
                     ELSE /\ synchronous_read_count_' = synchronous_read_count_ + 1
                          /\ queue' = queue
                          /\ pc' = Task("OnReadComplete", r)
                          /\ depth' = depth + 1
                          /\ last' = Step("io", "StartReading", r,
                                          ops \o <<"CallOnReadComplete">>, {}, <<>>)

\* StartReading().  socket_->RecvFrom through a null socket_ is undefined:
\* the process dies, or the call returns a result without a datagram.
IOStartReading ==
    /\ ~crashed
    /\ UNCHANGED <<cliVars, proofVars>>
    /\ pc.fn = "StartReading"
    /\ LET proc == ShouldProcessBuffered(synchronous_read_count_)
           d1 == IF proc
                    THEN ProcessBufferedChlos(dispatcher_, kNumSessionsToCreatePerSocketEvent)
                    ELSE dispatcher_
           ops1 == IF proc THEN <<ViaDispatcher(dispatcher_, "ProcessBufferedChlos")>>
                           ELSE <<>>
       IN  IF ReadInFlight(read_pending_)
              THEN /\ dispatcher_' = d1
                   /\ pc' = Idle
                   /\ depth' = 0
                   /\ last' = Step("io", "StartReading", 0, ops1, {}, <<>>)
                   /\ UNCHANGED <<read_pending_, synchronous_read_count_,
                                  read_buffer_, client_address_, sockPending,
                                  net_next, queue, crashed>>
              ELSE IF socket_ = "null"
                      THEN \/ /\ crashed' = TRUE
                              /\ read_pending_' = TRUE
                              /\ dispatcher_' = d1
                              /\ last' = Step("io", "StartReading", 0,
                                              ops1 \o <<"NullSocket">>, {}, <<>>)
                              /\ UNCHANGED <<synchronous_read_count_, read_buffer_,
                                             client_address_, sockPending, net_next,
                                             queue, pc, depth>>
                           \/ /\ crashed' = crashed
                              /\ \E r \in NullSocketResults :
                                    AfterRecvFrom(d1, ops1 \o <<"NullSocket">>, r, FALSE)
                      ELSE /\ crashed' = crashed
                           /\ \E r \in RecvResults :
                                 AfterRecvFrom(d1, ops1 \o <<"RecvFrom">>, r, TRUE)
    /\ UNCHANGED <<socket_, origin, starts, stops, initCount, expect>>

\* OnReadComplete(result), called in-line, from a posted task or by the socket.
IOOnReadComplete ==
    /\ ~crashed
    /\ UNCHANGED <<cliVars, proofVars>>
    /\ pc.fn = "OnReadComplete"
    /\ read_pending_' = FALSE
    /\ IF IsReadError(NormalizeResult(pc.result))
          THEN /\ StopBody("io", "OnReadComplete", pc.result)
               /\ pc' = Idle
               /\ depth' = 0
               /\ expect' = expect
          ELSE /\ \E d \in ProcessPacketOutcomes(dispatcher_) : dispatcher_' = d
               /\ last' = Step("io", "OnReadComplete", pc.result,
                               <<ViaDispatcher(dispatcher_, "ProcessPacket"),
                                 "CallStartReading">>,
                               {}, <<read_buffer_, client_address_>>)
               /\ expect' = (expect + 1) % SeqMod
               /\ pc' = Task("StartReading", 0)
               /\ depth' = depth
               /\ UNCHANGED <<socket_, sockPending, crashed>>
    /\ UNCHANGED <<synchronous_read_count_, read_buffer_, client_address_,
                   net_next, queue, origin, starts, stops, initCount>>

\* The outstanding receive completes: the socket writes the datagram (if any)
\* into the buffer and the message loop runs the completion callback.
IOSocketReadable ==
    /\ ~crashed
    /\ UNCHANGED <<cliVars, proofVars>>
    /\ pc = Idle
    /\ sockPending
    /\ Len(queue) < MaxQueue
    /\ \E r \in CompletionResults :
          /\ pc' = Task("OnReadComplete", r)
          /\ last' = Step("io", "RecvFromComplete", r, <<"RunCallback">>, {}, <<>>)
          /\ IF r > 0
                THEN /\ read_buffer_' = net_next
                     /\ client_address_' = PeerOf(net_next)
                     /\ net_next' = (net_next + 1) % SeqMod
                ELSE UNCHANGED <<read_buffer_, client_address_, net_next>>
    /\ sockPending' = FALSE
    /\ depth' = 0
    /\ origin' = "socket"
    /\ UNCHANGED <<socket_, dispatcher_, read_pending_, synchronous_read_count_,
                   queue, crashed, starts, stops, initCount, expect>>

vars == <<srvVars, cliVars, proofVars>>

Next ==
    \/ Start
    \/ Stop
    \/ IORunTask
    \/ IOStartOnCurrentThread
    \/ IOStartReading
    \/ IOOnReadComplete
    \/ IOSocketReadable

Spec == Init /\ [][Next]_vars

\* CreateQuicTransportClient(host, port) up to done.Wait(): the locals are
\* initialised, the closure is posted, the thread waits.
CreateQuicTransportClient(c) ==
    /\ cstate[c] \in {"idle", "returned"}
    /\ calls < MaxCalls
    /\ \E host \in Hosts, port \in Ports :
          /\ creq' = [creq EXCEPT ![c] = [host |-> host, port |-> port]]
          /\ cqueue' = Append(cqueue, [caller |-> c, host |-> host, port |-> port])
    /\ calls' = calls + 1
    /\ result' = [result EXCEPT ![c] = NullClient]
    /\ done' = [done EXCEPT ![c] = FALSE]
    /\ cstate' = [cstate EXCEPT ![c] = "waiting"]
    /\ returned' = [returned EXCEPT ![c] = NullClient]
    /\ rv' = [rv EXCEPT ![c] = "none"]
    /\ cio' = cio
    /\ UNCHANGED <<srvVars, proofVars>>

\* The closure on the I/O thread, up to "*result = new ...": resolves the
\* host unless it is a literal; on a resolution error it returns; otherwise
\* it builds the client and stores it in the caller's result.
IOClientClosure ==
    /\ cio = NoClosure
    /\ cqueue # <<>>
    /\ LET t == Head(cqueue)
           parsed == FromString(t.host)
       IN  /\ cqueue' = Tail(cqueue)
           /\ IF parsed.ok
                 THEN /\ result' = [result EXCEPT ![t.caller] = NewClient(parsed.ip, t.port)]
                      /\ cio' = [stage |-> "signal", caller |-> t.caller]
                      /\ rv' = rv
                 ELSE \E r \in ResolveOutcomes(t.host) :
                         /\ rv' = [rv EXCEPT ![t.caller] = r.rv]
                         /\ IF ResolutionFailed(r.rv)
                               THEN /\ cio' = NoClosure
                                    /\ result' = result
                               ELSE /\ result' = [result EXCEPT ![t.caller] =
                                                     NewClient(FrontAddress(r.addresses), t.port)]
                                    /\ cio' = [stage |-> "signal", caller |-> t.caller]
    /\ UNCHANGED <<cstate, creq, done, returned, calls>>
    /\ UNCHANGED <<srvVars, proofVars>>

\* The closure's last statement: event->Signal().
IOClientSignal ==
    /\ cio.stage = "signal"
    /\ done' = [done EXCEPT ![cio.caller] = TRUE]
    /\ cio' = NoClosure
    /\ UNCHANGED <<cstate, creq, result, returned, calls, cqueue, rv>>
    /\ UNCHANGED <<srvVars, proofVars>>

\* done.Wait() returns once the event is signaled (and resets it, the event
\* being AUTOMATIC); the call returns the local result.
CreateQuicTransportClientReturn(c) ==
    /\ cstate[c] = "waiting"
    /\ done[c]
    /\ done' = [done EXCEPT ![c] = FALSE]
    /\ returned' = [returned EXCEPT ![c] = result[c]]
    /\ cstate' = [cstate EXCEPT ![c] = "returned"]
    /\ UNCHANGED <<creq, result, calls, cqueue, cio, rv>>
    /\ UNCHANGED <<srvVars, proofVars>>

NextClient ==
    \/ \E c \in Callers : CreateQuicTransportClient(c)
    \/ IOClientClosure
    \/ IOClientSignal
    \/ \E c \in Callers : CreateQuicTransportClientReturn(c)

SpecClient == Init /\ [][NextClient]_vars

\* ------------------------------------------------ a silent network
\* The endpoint right after StartReading() found no datagram (RecvFrom
\* returned ERR_IO_PENDING) while the dispatcher held buffered CHLOs: the
\* receive is pending, the counter is 0 and StartReading has been posted.
InitBuffered ==
    /\ socket_ = "open"
    /\ \E n \in 1..MaxBuffered :
          dispatcher_ = [InitializeWithWriter(NewDispatcher) EXCEPT !.chlos = n]
    /\ read_pending_ = TRUE
    /\ synchronous_read_count_ = 0
    /\ net_next \in 0..(SeqMod - 1)
    /\ read_buffer_ = (net_next + SeqMod - 1) % SeqMod
    /\ client_address_ = PeerOf(read_buffer_)
    /\ expect = net_next
    /\ sockPending = TRUE
    /\ queue = <<Task("StartReading", 0)>>
    /\ pc = Idle
    /\ depth = 0
    /\ origin = "task"
    /\ crashed = FALSE
    /\ starts = 1
    /\ stops = 0
    /\ initCount = 1
    /\ last = Step("io", "StartReading", ERR_IO_PENDING,
                   <<"RecvFrom", "HasChlosBuffered", "PostStartReading">>, {}, <<>>)
    /\ cstate = [c \in Callers |-> "idle"]
    /\ creq = [c \in Callers |-> NoRequest]
    /\ result = [c \in Callers |-> NullClient]
    /\ done = [c \in Callers |-> FALSE]
    /\ returned = [c \in Callers |-> NullClient]
    /\ calls = 0
    /\ cqueue = <<>>
    /\ cio = NoClosure
    /\ rv = [c \in Callers |-> "none"]
    /\ requested = 0
    /\ resolved = 0
    /\ verified = 0
    /\ proofLast = ProofCall("none", "", <<>>, <<>>, "none")

\* No datagram arrives and nobody calls Start() or Stop(): only the I/O
\* thread runs, and it runs every task posted to it.
NextSilent ==
    \/ IORunTask
    \/ IOStartReading

SpecSilent ==
    /\ InitBuffered
    /\ [][NextSilent]_vars
    /\ WF_vars(IORunTask)
    /\ WF_vars(IOStartReading)

\* ------------------------------------------- fallback proof source/verifier
\* FakeProofSource::GetProof(..., hostname, server_config, ..., callback)
GetProof ==
    /\ requested + verified < MaxProofCalls
    /\ \E hostname \in ProofHosts, server_config \in ServerConfigs :
          LET runs == GetProofRuns(hostname, server_config) IN
          /\ resolved' = resolved + Len(runs)
          /\ proofLast' = ProofCall("GetProof", hostname, server_config, runs,
                                    "returned")
    /\ requested' = requested + 1
    /\ UNCHANGED <<verified, srvVars, cliVars>>

\* FakeProofSource::ComputeTlsSignature(..., hostname, signature_algorithm,
\* in, callback)
ComputeTlsSignature ==
    /\ requested + verified < MaxProofCalls
    /\ \E hostname \in ProofHosts, alg \in SignatureAlgorithms :
          LET runs == ComputeTlsSignatureRuns(hostname, alg) IN
          /\ resolved' = resolved + Len(runs)
          /\ proofLast' = ProofCall("ComputeTlsSignature", hostname, alg, runs,
                                    "returned")
    /\ requested' = requested + 1
    /\ UNCHANGED <<verified, srvVars, cliVars>>

\* FakeProofVerifier::VerifyProof(hostname, ..., certs, ..., signature, ...,
\* callback)
VerifyProof ==
    /\ requested + verified < MaxProofCalls
    /\ \E hostname \in ProofHosts, certs \in CertLists, signature \in Signatures :
          proofLast' = ProofCall("VerifyProof", hostname, <<certs, signature>>,
                                 <<>>, VerifyProofStatus(hostname, certs, signature))
    /\ verified' = verified + 1
    /\ UNCHANGED <<requested, resolved, srvVars, cliVars>>

\* FakeProofVerifier::VerifyCertChain(hostname, port, certs, ..., callback)
VerifyCertChain ==
    /\ requested + verified < MaxProofCalls
    /\ \E hostname \in ProofHosts, certs \in CertLists :
          proofLast' = ProofCall("VerifyCertChain", hostname, certs, <<>>,
                                 VerifyCertChainStatus(hostname, certs))
    /\ verified' = verified + 1
    /\ UNCHANGED <<requested, resolved, srvVars, cliVars>>

NextProof ==
    \/ GetProof
    \/ ComputeTlsSignature
    \/ VerifyProof
    \/ VerifyCertChain

SpecProof == Init /\ [][NextProof]_vars

\* ======================================================================
\* Properties
\* ======================================================================
Ops(l) == {l.ops[i] : i \in DOMAIN l.ops}

\* The step being taken is a call of fn on the I/O thread.
IOStepOf(fn) == pc.fn = fn /\ last'.who = "io" /\ last'.fn = fn

\* Receives issued and not yet handled by OnReadComplete: outstanding on the
\* socket, completed and posted, or completed and about to be handled.
PostedCompletions == {i \in DOMAIN queue : queue[i].fn = "OnReadComplete"}

Outstanding ==
    (IF sockPending THEN 1 ELSE 0) + Cardinality(PostedCompletions)
        + (IF pc.fn = "OnReadComplete" THEN 1 ELSE 0)

\* C1: at most one receive is outstanding at a time, and read_pending_ is
\* true while one is; a receive is only issued when read_pending_ is false;
\* a StartReading() call made while read_pending_ is true issues no receive
\* and leaves read_pending_ and the synchronous-read counter unchanged.
C1_SingleReadInFlight ==
    /\ [](Outstanding <= 1 /\ (Outstanding = 1 => read_pending_))
    /\ [][IOStepOf("StartReading") =>
            /\ ("RecvFrom" \in Ops(last') => ~read_pending_)
            /\ (read_pending_ =>
                  /\ "RecvFrom" \notin Ops(last')
                  /\ "NullSocket" \notin Ops(last')
                  /\ UNCHANGED <<read_pending_, synchronous_read_count_,
                                 sockPending, read_buffer_, client_address_,
                                 queue>>)]_vars

\* A posted StartReading ran while the receive was still outstanding on the
\* socket and returned without issuing a second one.
C1_Witness ==
    /\ last.who = "io" /\ last.fn = "StartReading"
    /\ "RecvFrom" \notin Ops(last)
    /\ read_pending_ /\ sockPending /\ socket_ = "open"
    /\ pc = Idle

\* ---------------------------------------------------------------- C2
ClosureFinished(c) ==
    /\ cio.caller # c
    /\ \A i \in DOMAIN cqueue : cqueue[i].caller # c

\* C2: when resolution fails, the call returns a null client and the
\* calling thread does not stay blocked on the completion signal: a thread
\* waiting in done.Wait() whose closure has finished has been signaled.
C2_ResolutionFailureReturns ==
    \A c \in Callers :
        (cstate[c] = "waiting" /\ ClosureFinished(c)) => done[c]

\* ---------------------------------------------------------------- C3
\* C3: Stop() never fails, whenever it is called: it never goes through an
\* absent dispatcher or an absent socket, the process survives it, and it
\* closes and releases the socket only when one is held.
C3_StopNeverFails ==
    [][(last'.fn = "Stop" /\ stops' = stops + 1) =>
          /\ "NullDispatcher" \notin Ops(last')
          /\ "NullSocket" \notin Ops(last')
          /\ ~crashed'
          /\ ("Close" \in Ops(last') => socket_ = "open")]_vars

\* ---------------------------------------------------------------- C4
\* C4: the in-line nesting of OnReadComplete within one task never exceeds
\* 32; a synchronous completion is invoked in-line only while the counter,
\* once incremented, is at most 32, and the completion that takes it to 33
\* is posted to the task queue (counter reset) instead of invoked.
C4_YieldBound ==
    /\ [](depth <= 32 /\ synchronous_read_count_ <= 32)
    /\ [][(IOStepOf("StartReading") /\ ~read_pending_ /\ ~crashed'
              /\ last'.result # ERR_IO_PENDING) =>
            IF synchronous_read_count_ = 32
               THEN /\ "CallOnReadComplete" \notin Ops(last')
                    /\ queue' = Append(queue, Task("OnReadComplete", last'.result))
                    /\ pc' = Idle
                    /\ synchronous_read_count_' = 0
               ELSE /\ pc' = Task("OnReadComplete", last'.result)
                    /\ queue' = queue
                    /\ depth' = depth + 1
                    /\ synchronous_read_count_' = synchronous_read_count_ + 1]_vars

\* After 32 completions handled in-line in one task, the 33rd was posted.
C4_Witness ==
    /\ last.fn = "StartReading" /\ "PostOnReadComplete" \in Ops(last)
    /\ depth = 32
    /\ pc = Idle
    /\ queue # <<>> /\ queue[Len(queue)].fn = "OnReadComplete"
    /\ synchronous_read_count_ = 0

\* ---------------------------------------------------------------- C5
\* C5: OnReadComplete(result) with result <= 0 stops the endpoint: the
\* dispatcher is shut down, the socket is closed and released by this call
\* if it was held (and not touched if it was not), so that none is held
\* afterwards; no datagram is handed to the dispatcher and the read loop is
\* not re-invoked, neither in-line nor by a posted task.
C5_ReadErrorStops ==
    [][(IOStepOf("OnReadComplete") /\ pc.result <= 0) =>
          /\ socket_' = "null"
          /\ ~sockPending'
          /\ dispatcher_'.shutdown
          /\ "Shutdown" \in Ops(last')
          /\ ("Close" \in Ops(last')) = (socket_ = "open")
          /\ ("Release" \in Ops(last')) = (socket_ = "open")
          /\ "ProcessPacket" \notin Ops(last')
          /\ last'.pkt = <<>>
          /\ expect' = expect
          /\ pc' = Idle
          /\ queue' = queue
          /\ ~read_pending_']_vars

\* A failed read stopped a started endpoint, closing its socket.
C5_Witness ==
    /\ last.who = "io" /\ last.fn = "OnReadComplete"
    /\ last.result \in {ERR_FAILED, 0}
    /\ last.ops = <<"Shutdown", "Close", "Release">>
    /\ socket_ = "null" /\ dispatcher_.shutdown
    /\ pc = Idle

\* ---------------------------------------------------------------- C6
\* Datagrams received but not yet handed to the dispatcher.
Unhanded == (net_next - expect + SeqMod) % SeqMod

CompletionScheduled ==
    \/ pc = Task("OnReadComplete", DatagramBytes)
    \/ \E i \in DOMAIN queue : queue[i] = Task("OnReadComplete", DatagramBytes)

\* C6: datagrams are handed to ProcessPacket once each, in the order they
\* were received, with the peer address they came from, on the I/O thread
\* only; at most one received datagram awaits the dispatcher, and while it
\* does the buffer and peer address still hold it and its completion is
\* scheduled (in-line, from the socket, or as a posted task).
C6_OrderedDelivery ==
    /\ [](/\ Unhanded \in {0, 1}
          /\ (Unhanded = 1 =>
                /\ read_buffer_ = expect
                /\ client_address_ = PeerOf(expect)
                /\ CompletionScheduled
                /\ read_pending_))
    /\ [][("ProcessPacket" \in Ops(last') /\ pc.fn = "OnReadComplete") =>
            /\ last'.who = "io"
            /\ last'.pkt = <<expect, PeerOf(expect)>>
            /\ Unhanded = 1
            /\ expect' = (expect + 1) % SeqMod
            /\ pc.result > 0]_vars

\* A datagram whose completion was deferred through a posted task has been
\* handed to the dispatcher, after an earlier one.
C6_Witness ==
    /\ last.who = "io" /\ last.fn = "OnReadComplete"
    /\ last.pkt # <<>>
    /\ depth = 0 /\ origin = "task"
    /\ expect = 2
    /\ initCount = 1 /\ stops = 0

\* ---------------------------------------------------------------- C7
\* The calls that touch the socket, the read-in-flight flag, the receive
\* buffer or the dispatcher.
IOAffineOps ==
    {"Shutdown", "Close", "Release", "NullDispatcher", "NullSocket",
     "RecvFrom", "ProcessPacket", "ProcessBufferedChlos", "HasChlosBuffered",
     "NewSocket", "SwapSocket", "NewDispatcher", "InitializeWithWriter"}

\* C7: the socket, the read-in-flight flag, the receive buffer and the
\* dispatcher are read and written only by steps of the I/O thread: no step
\* of the caller thread touches them.
C7_IOThreadAffinity ==
    last.who = "caller" => Ops(last) \cap IOAffineOps = {}

\* ---------------------------------------------------------------- C8
Lifecycle ==
    IF initCount = 0 THEN "Created"
    ELSE IF socket_ = "open" THEN "Started" ELSE "Stopped"

\* C8: the lifecycle only moves Created -> Started -> Stopped: the
\* initialization runs only on a Created endpoint (hence at most once), and
\* a Stopped endpoint stays Stopped (never again holds a socket).
C8_Lifecycle ==
    [][/\ (initCount' # initCount => Lifecycle = "Created")
       /\ (Lifecycle = "Stopped" => Lifecycle' = "Stopped")]_vars

\* ---------------------------------------------------------------- C9
\* C9: when the receive issued by StartReading() returns pending, a
\* StartReading continuation is posted (appended to the task queue, not
\* called in-line) exactly when the dispatcher reports buffered handshake
\* state; otherwise nothing is posted and the receive stays outstanding.
C9_BufferedHandshakeContinuation ==
    [][(IOStepOf("StartReading") /\ "RecvFrom" \in Ops(last')
          /\ last'.result = ERR_IO_PENDING) =>
            /\ pc' = Idle
            /\ sockPending' /\ read_pending_'
            /\ IF dispatcher_'.chlos > 0
                  THEN queue' = Append(queue, Task("StartReading", 0))
                  ELSE queue' = queue]_vars

\* A receive returned pending while a handshake was buffered, and the
\* continuation was posted.
C9_Witness ==
    /\ last.who = "io" /\ last.fn = "StartReading"
    /\ last.result = ERR_IO_PENDING
    /\ "RecvFrom" \in Ops(last)
    /\ dispatcher_.chlos > 0
    /\ queue # <<>> /\ queue[Len(queue)] = Task("StartReading", 0)
    /\ pc = Idle /\ sockPending

\* ---------------------------------------------------------------- C10
\* The literal hosts and the address each denotes.
LiteralHosts ==
    {<<"203.0.113.5", <<203, 0, 113, 5>> >>, <<"::1", <<0, 0, 0, 0, 0, 0, 0, 1>> >>}

\* C10: for a literal host the call returns only after the I/O thread has
\* written the output slot, and returns the client built for host:port
\* (never null); the completion signal is never up while the slot is still
\* null, and a thread whose closure has not signaled is still waiting.
C10_LiteralHostConstruction ==
    \A c \in Callers :
        /\ done[c] => ~result[c].null
        /\ \A h \in LiteralHosts :
              (cstate[c] = "returned" /\ creq[c].host = h[1]) =>
                  returned[c] = [null |-> FALSE, ip |-> h[2], port |-> creq[c].port]
        /\ (cstate[c] = "returned" /\ ~returned[c].null) =>
              (ClosureFinished(c) /\ returned[c] = result[c])

\* CreateQuicTransportClient("203.0.113.5", 443) returned its client.
C10_Witness ==
    \E c \in Callers :
        /\ cstate[c] = "returned"
        /\ creq[c] = [host |-> "203.0.113.5", port |-> 443]
        /\ returned[c] = [null |-> FALSE, ip |-> <<203, 0, 113, 5>>, port |-> 443]

\* ---------------------------------------------------------------- C11
\* The fields of the endpoint.
endpointFields ==
    <<socket_, dispatcher_, read_pending_, synchronous_read_count_,
      read_buffer_, client_address_, sockPending, queue>>

\* C11: Stop() called while no socket is held is a no-op: it makes no
\* dispatcher call, closes nothing and leaves every field unchanged.
C11_StopWithoutSocketIsNoOp ==
    [][(last'.fn = "Stop" /\ stops' = stops + 1 /\ socket_ = "null") =>
          /\ "Shutdown" \notin Ops(last')
          /\ "NullDispatcher" \notin Ops(last')
          /\ "Close" \notin Ops(last')
          /\ ~crashed'
          /\ UNCHANGED endpointFields]_vars

\* ---------------------------------------------------------------- C12
\* op1 occurs in ops, and op2 occurs only after it.
Precedes(ops, op1, op2) ==
    \E i \in 1..Len(ops) :
        /\ ops[i] = op1
        /\ \A j \in 1..Len(ops) : ops[j] = op2 => i < j

ReceiveLoopOps ==
    {"RecvFrom", "NullSocket", "ProcessBufferedChlos", "ProcessPacket",
     "HasChlosBuffered"}

\* C12: Start() only posts StartOnCurrentThread and touches no field; the
\* I/O thread then binds the socket, constructs the dispatcher, gives it
\* its writer and only then calls StartReading(); no receive and no
\* dispatcher operation of the receive loop happens on a dispatcher that
\* has not been initialized with its writer.
C12_StartupOrder ==
    [][/\ (last'.fn = "Start" /\ starts' = starts + 1) =>
             /\ Ops(last') = {"PostStartOnCurrentThread"}
             /\ queue' = Append(queue, Task("StartOnCurrentThread", 0))
             /\ UNCHANGED <<socket_, dispatcher_, read_pending_,
                            synchronous_read_count_, read_buffer_,
                            client_address_, sockPending, net_next, pc>>
       /\ IOStepOf("StartOnCurrentThread") =>
             /\ Precedes(last'.ops, "Listen", "SwapSocket")
             /\ Precedes(last'.ops, "SwapSocket", "NewDispatcher")
             /\ Precedes(last'.ops, "NewDispatcher", "InitializeWithWriter")
             /\ Precedes(last'.ops, "InitializeWithWriter", "CallStartReading")
             /\ Ops(last') \cap ReceiveLoopOps = {}
             /\ net_next' = net_next
       /\ (last'.who = "io" /\ Ops(last') \cap ReceiveLoopOps # {}) =>
             /\ initCount > 0
             /\ dispatcher_.alive
             /\ dispatcher_.writer
             /\ "NullDispatcher" \notin Ops(last')]_vars

\* The first StartReading() after initialization has issued its receive.
C12_Witness ==
    /\ initCount = 1
    /\ last.who = "io"
    /\ last.fn = "StartReading"
    /\ "RecvFrom" \in Ops(last)
    /\ dispatcher_.writer

\* ---------------------------------------------------------------- C13
\* C13: whichever of Listen, SetReceiveBufferSize, SetSendBufferSize and
\* GetLocalAddress fail, StartOnCurrentThread() still takes the socket,
\* constructs and initializes the dispatcher and calls StartReading().
C13_StartupFailuresIgnored ==
    [][IOStepOf("StartOnCurrentThread") =>
          /\ socket_' = "open"
          /\ dispatcher_'.alive
          /\ dispatcher_'.writer
          /\ initCount' = initCount + 1
          /\ {"SwapSocket", "NewDispatcher", "InitializeWithWriter",
              "CallStartReading"} \subseteq Ops(last')
          /\ pc' = Task("StartReading", 0)]_vars

\* Initialization went through although every start-up call failed.
C13_Witness ==
    /\ last.who = "io"
    /\ last.fn = "StartOnCurrentThread"
    /\ last.fail = SetupCalls
    /\ socket_ = "open"
    /\ dispatcher_.writer
    /\ pc = Task("StartReading", 0)

\* ---------------------------------------------------------------- C14
\* C14: every GetProof and ComputeTlsSignature call of the fallback proof
\* source has run its callback exactly once, with success and placeholder
\* material, by the time it returns; VerifyProof and VerifyCertChain of the
\* fallback verifier return success, never a pending status, and leave no
\* callback waiting.
C14_FallbackProofResolves ==
    /\ resolved = requested
    /\ proofLast.op \in {"GetProof", "ComputeTlsSignature"} =>
          /\ Len(proofLast.runs) = 1
          /\ proofLast.runs[1].ok
          /\ proofLast.runs[1].signature = "fake signature"
          /\ proofLast.status = "returned"
    /\ proofLast.op = "GetProof" =>
          /\ proofLast.runs[1].chain = <<"fake cert">>
          /\ proofLast.runs[1].leaf_cert_scts = "fake timestamp"
    /\ proofLast.op \in {"VerifyProof", "VerifyCertChain"} =>
          /\ proofLast.status = "QUIC_SUCCESS"
          /\ proofLast.status # "QUIC_PENDING"
          /\ proofLast.runs = <<>>

\* Both the proof source and the verifier have been called; the last call
\* was a GetProof whose callback has run.
C14_Witness ==
    /\ proofLast.op = "GetProof"
    /\ Len(proofLast.runs) = 1
    /\ requested >= 2
    /\ verified >= 1

\* ---------------------------------------------------------------- C17
\* C17: when resolution fails, the closure returns without writing the
\* caller's result slot and without signaling: the slot is still null and
\* the event still unsignaled, and no signal is on its way.
C17_FailurePathWritesNothing ==
    \A c \in Callers :
        (rv[c] # "none" /\ rv[c] # "OK") =>
            /\ result[c] = NullClient
            /\ ~done[c]
            /\ cio.caller # c

\* A closure took the failure path while its caller waits.
C17_Witness ==
    \E c \in Callers :
        /\ rv[c] = "ERR_NAME_NOT_RESOLVED"
        /\ cstate[c] = "waiting"
        /\ result[c] = NullClient
        /\ ~done[c]

\* ---------------------------------------------------------------- C15
\* Number of times op occurs in ops.
Count(ops, op) == Cardinality({i \in DOMAIN ops : ops[i] = op})

\* C15: StartReading() calls ProcessBufferedChlos(16) exactly when the
\* synchronous-read counter is 0 on entry, once, as its first call (before
\* the in-flight check and before the socket); this happens only in the
\* first StartReading() call of an I/O-thread task (in-line depth 0), and
\* every later StartReading() call of that task runs at depth >= 1, so at
\* most once per task.
C15_BufferedChlosOncePerTask ==
    [][IOStepOf("StartReading") =>
          /\ ("ProcessBufferedChlos" \in Ops(last')) = (synchronous_read_count_ = 0)
          /\ synchronous_read_count_ = 0 =>
                /\ last'.ops[1] = "ProcessBufferedChlos"
                /\ Count(last'.ops, "ProcessBufferedChlos") = 1
                /\ dispatcher_' = ProcessBufferedChlos(dispatcher_,
                                       kNumSessionsToCreatePerSocketEvent)
                /\ depth = 0
                /\ (pc' # Idle /\ ~crashed') => depth' >= 1
          /\ synchronous_read_count_ # 0 => dispatcher_' = dispatcher_
          /\ depth' >= depth \/ pc' = Idle]_vars

\* Inside one task: a StartReading() call that did not process buffered
\* CHLOs, after at least two datagrams were read in-line.
C15_Witness ==
    /\ last.who = "io"
    /\ last.fn = "StartReading"
    /\ "RecvFrom" \in Ops(last)
    /\ "ProcessBufferedChlos" \notin Ops(last)
    /\ depth >= 3
    /\ pc.fn = "OnReadComplete"

\* ---------------------------------------------------------------- C16
\* The loop has yielded: a receive is pending on the socket, or a completion
\* has been posted.
Yielded == sockPending \/ PostedCompletions # {}

\* C16: the synchronous-read counter stays within 0..32; it is 0 whenever a
\* receive is pending on the socket or a completion is posted; and it only
\* grows, by one, in a StartReading() call whose receive completed
\* synchronously.
C16_CounterRange ==
    [][/\ synchronous_read_count_' \in 0..kMaxSynchronousReads
       /\ Yielded' => synchronous_read_count_' = 0
       /\ synchronous_read_count_' > synchronous_read_count_ =>
             /\ IOStepOf("StartReading")
             /\ synchronous_read_count_' = synchronous_read_count_ + 1
             /\ Ops(last') \cap {"RecvFrom", "NullSocket"} # {}
             /\ last'.result # ERR_IO_PENDING
             /\ pc' = Task("OnReadComplete", last'.result)]_vars

\* The counter at its maximum, inside a task.
C16_Witness ==
    /\ synchronous_read_count_ = kMaxSynchronousReads
    /\ pc.fn = "OnReadComplete"
    /\ ~Yielded

\* ---------------------------------------------------------------- C19
\* The I/O thread has just taken a posted StartReading or OnReadComplete
\* continuation off its queue while the endpoint is stopped.
ContinuationAfterStop ==
    /\ initCount > 0
    /\ socket_ = "null"
    /\ last.who = "io"
    /\ last.fn = "RunTask"
    /\ pc.fn \in {"StartReading", "OnReadComplete"}

\* C19: a StartReading or OnReadComplete continuation that runs after the
\* socket was released issues no receive and hands no datagram to the
\* dispatcher.
C19_NoReceiveAfterStop ==
    [][(ContinuationAfterStop /\ last'.who = "io") =>
          /\ Ops(last') \cap {"RecvFrom", "NullSocket", "ProcessPacket"} = {}
          /\ ~crashed']_vars

\* ---------------------------------------------------------------- C20
\* C20: whenever the I/O thread is between tasks and the endpoint holds its
\* socket, read_pending_ is true and a receive is outstanding on the socket
\* or an OnReadComplete continuation is queued.
C20_ReceiveLoopArmed ==
    (pc = Idle /\ socket_ = "open") =>
        /\ read_pending_
        /\ sockPending \/ PostedCompletions # {}

\* The same, for an endpoint initialized once.
C20_ArmedWhileStartedOnce == initCount <= 1 => C20_ReceiveLoopArmed

\* ---------------------------------------------------------------- C18
\* The I/O thread is at rest: no task runs, none is queued, and the only
\* thing that can wake it is the pending receive.
AtRest == pc = Idle /\ queue = <<>> /\ read_pending_ /\ sockPending

\* C18: with a receive pending and no datagram arriving, the posted
\* continuations keep calling ProcessBufferedChlos until the dispatcher has
\* no buffered handshake left, however many were buffered: the loop never
\* comes to rest while the dispatcher still holds buffered handshakes.
C18_BufferedHandshakesDrain ==
    AtRest => ~HasChlosBuffered(dispatcher_)

====
